---- MODULE Spec2Model ----
(***************************************************************************)
(* State-machine model of the catalog engine of cdes_mcp_server/server.py: *)
(* the two in-memory caches, the two storage directories, the lazy readers *)
(* _get_schema / _get_reference and the refresh sync_schemas_from_github.  *)
(*                                                                         *)
(* A JSON document is a natural number (its identity).  The text of a file *)
(* is a sequence: <<d>> is the complete serialisation of document d, <<>>  *)
(* is an empty or cut-off file, which is not JSON.  A cache, and a         *)
(* directory, is a function whose DOMAIN is the set of names present.      *)
(***************************************************************************)
EXTENDS Integers, Sequences, FiniteSets, TLC

\* The origin may serve the documents 1..MaxDoc; bundled files hold document 0.
MaxDoc == 1
\* Refresh calls made in one behaviour; each call reads the clock once.
MaxCalls == 2
\* Records in the terpene library, and in the cannabinoid library.
MaxRecords == 2

Bundled == 0
Docs == 1 .. MaxDoc

\* The configured item lists, cut to their first entries.
GITHUB_SCHEMA_FILES == <<"strain">>
GITHUB_REFERENCE_MAP == <<"terpene-library">>

\* File stems that may lie in a storage directory without being configured.
ExtraStems == {"custom"}

Kinds == {"Schema", "Reference"}

Range(s) == {s[i] : i \in 1 .. Len(s)}

Listed(kind) ==
    IF kind = "Schema" THEN Range(GITHUB_SCHEMA_FILES) ELSE Range(GITHUB_REFERENCE_MAP)

Names(kind) == Listed(kind) \cup ExtraStems

\* The items of one refresh in iteration order: the schema loop, then the
\* reference loop.
Items ==
    [i \in 1 .. Len(GITHUB_SCHEMA_FILES) |-> [kind |-> "Schema", name |-> GITHUB_SCHEMA_FILES[i]]]
    \o [i \in 1 .. Len(GITHUB_REFERENCE_MAP) |->
            [kind |-> "Reference", name |-> GITHUB_REFERENCE_MAP[i]]]

NItems == Len(Items)

VARIABLES
    CACHE,        \* [Schema |-> _SCHEMA_CACHE, Reference |-> _REFERENCE_CACHE]
    DIR,          \* [Schema |-> files of _SCHEMA_DIR, Reference |-> files of _REFERENCE_DIR]
    last_sync,    \* _last_sync: <<>> is None, <<t>> a timestamp
    now,          \* the clock datetime.now reads
    pc,           \* position of the refresh call
    idx,          \* index in Items of the item being refreshed
    data,         \* the local `data` of the loop body: <<>> or <<d>>
    errors,       \* the local list `errors`
    updated,      \* [Schema |-> schemas_updated, Reference |-> refs_updated]
    summary,      \* <<>> or <<the returned summary>>
    originUp,     \* whether the origin answers during the current call
    calls,        \* history: refresh calls started
    pre,          \* history: <<CACHE and DIR when the current call started>>, <<>> between calls
    log,          \* history: one entry per item the current call has fetched
    written,      \* history: the items whose cache entry the current call assigned
    replaced,     \* history: per kind, the document a refresh of this process last assigned to a name
    streak,       \* history: calls completed in a row with the origin unreachable
    base,         \* history: <<CACHE and DIR when the current streak started>>, <<>> without one
    rd,           \* <<>> or <<the last read: its key and its outcome>>
    rpc,          \* position of the concurrent reader
    rkey,         \* the key the concurrent reader asked for
    rloaded,      \* the document the concurrent reader parsed: <<>> or <<d>>
    rcall,        \* history: the value of calls, and whether a refresh ran, when the reader began
    content,      \* the record lists of the reference documents the lookup tools read
    out           \* <<>> or <<the last call of a lookup tool: its arguments and its outcome>>

vars ==
    <<CACHE, DIR, last_sync, now, pc, idx, data, errors, updated, summary, originUp,
      calls, pre, log, written, replaced, streak, base, rd, rpc, rkey, rloaded, rcall,
      content, out>>

syncVars == <<pc, idx, data, errors, updated, summary, originUp>>
histVars == <<calls, pre, log, written, replaced, streak, base>>
readerVars == <<rpc, rkey, rloaded, rcall>>
toolVars == <<content, out>>

EmptyMap == [x \in {} |-> Bundled]

Put(f, k, v) == [x \in (DOMAIN f) \cup {k} |-> IF x = k THEN v ELSE f[x]]

\* ---------------------------------------------------------------- JSON

\* json.dumps(data, indent=2): the complete text of the document.
JsonDumps(d) == <<d>>

Ok(d) == [status |-> "ok", doc |-> <<d>>]
Raised(e) == [status |-> e, doc |-> <<>>]

\* A parser that reports a text that is not JSON as a missing file.
LoadJsonAsMissing(text) == IF Len(text) = 1 THEN Ok(text[1]) ELSE Raised("FileNotFoundError")

\* _load_json: json.loads of the file's text; a cut-off text does not parse.
LoadJson(text) == IF Len(text) = 1 THEN Ok(text[1]) ELSE Raised("JSONDecodeError")

\* ---------------------------------------------------------------- readers

\* The outcome of _get_schema / _get_reference run without interruption.
GetResult(cache, dir, name) ==
    IF name \in DOMAIN cache THEN Ok(cache[name])
    ELSE IF name \notin DOMAIN dir THEN Raised("FileNotFoundError")
    ELSE LoadJson(dir[name])

\* A reader that returns the loaded document without keeping it.
GetCacheForgets(cache, dir, name) == cache

\* The cache after that call: only a successful load adds an entry.
GetCache(cache, dir, name) ==
    IF name \in DOMAIN cache THEN cache
    ELSE IF name \notin DOMAIN dir THEN cache
    ELSE IF LoadJson(dir[name]).status = "ok" THEN Put(cache, name, LoadJson(dir[name]).doc[1])
    ELSE cache

\* Every file stem, in sorted() order.
SortedStems == <<"custom", "strain", "terpene-library">>

IsStored(dir, n) == n \in DOMAIN dir

\* _all_schema_names / _all_reference_names: the stems of the files in
\* storage, sorted.
AllNames(dir) == SelectSeq(SortedStems, LAMBDA n : IsStored(dir, n))

\* "$id" in s: the documents of a configured schema carry their "$id", which
\* names the schema; a stray file carries none.
HasId(sn) == sn \in Listed("Schema")

\* The state of the registry loop of validate_data: whether it has raised,
\* the schema cache, and the resources collected ("$id" -> document).
Resolution(status, cache, registry) ==
    [status |-> status, cache |-> cache, registry |-> registry]

\* A registry loop that parses the stored files instead of asking the cache.
ResourcesFromStorage(cache, dir, names, registry) ==
    Resolution("ok", cache,
               [sn \in {n \in Range(names) : HasId(n) /\ LoadJson(dir[n]).status = "ok"} |->
                    LoadJson(dir[sn]).doc[1]])

\* A registry loop that parses every stored file again and replaces the cache
\* entries with what it parsed.
ResourcesReloads(cache, dir, names, registry) ==
    LET parsed == {n \in Range(names) : LoadJson(dir[n]).status = "ok"}
        reloaded == [n \in (DOMAIN cache) \cup parsed |->
                        IF n \in parsed THEN LoadJson(dir[n]).doc[1] ELSE cache[n]]
    IN  Resolution("ok", reloaded, [sn \in {n \in parsed : HasId(n)} |-> reloaded[sn]])

RECURSIVE Resources(_, _, _, _)
\* for sn in _all_schema_names(): s = _get_schema(sn); if "$id" in s:
\* resources.append((s["$id"], ...)).  A _get_schema that raises ends the loop
\* with what it had cached so far.
Resources(cache, dir, names, registry) ==
    IF names = <<>> THEN Resolution("ok", cache, registry)
    ELSE LET sn == Head(names)
             s == GetResult(cache, dir, sn)
         IN  IF s.status # "ok" THEN Resolution(s.status, cache, registry)
             ELSE Resources(GetCache(cache, dir, sn), dir, Tail(names),
                            IF HasId(sn) THEN Put(registry, sn, s.doc[1]) ELSE registry)

Snapshot == [CACHE |-> CACHE, DIR |-> DIR]

\* The reference datasets whose records the tools read, in the order of
\* _GITHUB_REFERENCE_MAP; search_reference_data reads the first two.
Datasets == <<"terpene-library", "cannabinoid-library", "terpene-colors">>

NoRecords == [ds \in Range(Datasets) |-> <<>>]

\* Module initialisation, with the stray files es and er in the directories.
CatalogInit(es, er) ==
    /\ CACHE = [Schema |-> EmptyMap, Reference |-> EmptyMap]
    /\ DIR = [Schema |-> [n \in Listed("Schema") \cup es |-> JsonDumps(Bundled)],
              Reference |-> [n \in Listed("Reference") \cup er |-> JsonDumps(Bundled)]]
    /\ last_sync = <<>>
    /\ now = 0
    /\ pc = "idle"
    /\ idx = 0
    /\ data = <<>>
    /\ errors = <<>>
    /\ updated = [Schema |-> 0, Reference |-> 0]
    /\ summary = <<>>
    /\ originUp = TRUE
    /\ calls = 0
    /\ pre = <<>>
    /\ log = <<>>
    /\ written = {}
    /\ replaced = [Schema |-> EmptyMap, Reference |-> EmptyMap]
    /\ streak = 0
    /\ base = <<>>
    /\ rd = <<>>
    /\ rpc = "idle"
    /\ rkey = [kind |-> "Schema", name |-> "strain"]
    /\ rloaded = <<>>
    /\ rcall = [calls |-> 0, running |-> FALSE]

Init ==
    /\ \E es \in SUBSET ExtraStems, er \in SUBSET ExtraStems : CatalogInit(es, er)
    /\ content = NoRecords
    /\ out = <<>>

\* _get_schema(name) / _get_reference(name), run to completion.
Get(kind, name) ==
    /\ pc = "idle"
    /\ rd' = <<[kind |-> kind, name |-> name, res |-> GetResult(CACHE[kind], DIR[kind], name)]>>
    /\ CACHE' = [CACHE EXCEPT ![kind] = GetCache(CACHE[kind], DIR[kind], name)]
    /\ streak' = 0
    /\ base' = <<>>
    /\ UNCHANGED <<toolVars, DIR, last_sync, now, syncVars, calls, pre, log, written, replaced, readerVars>>

GetSchema == \E name \in Names("Schema") : Get("Schema", name)

\* The outcome of validate_data: the schema the validator was built with, or
\* the exception, and the registry it resolves "$id"s with.
Validated(schema_name, res, registry) ==
    <<[kind |-> "validate", name |-> schema_name, res |-> res, registry |-> registry]>>

\* validate_data(schema_name, data), run to completion: _get_schema of the
\* schema, then the registry loop over the stored schema names.
ValidateData(schema_name) ==
    /\ pc = "idle"
    /\ LET schema == GetResult(CACHE.Schema, DIR.Schema, schema_name)
           first == GetCache(CACHE.Schema, DIR.Schema, schema_name)
           loop == Resources(first, DIR.Schema, AllNames(DIR.Schema), EmptyMap)
       IN  IF schema.status # "ok"
           THEN /\ rd' = Validated(schema_name, schema, EmptyMap)
                /\ CACHE' = [CACHE EXCEPT !.Schema = first]
           ELSE /\ rd' = Validated(schema_name,
                                   IF loop.status = "ok" THEN schema ELSE Raised(loop.status),
                                   IF loop.status = "ok" THEN loop.registry ELSE EmptyMap)
                /\ CACHE' = [CACHE EXCEPT !.Schema = loop.cache]
    /\ streak' = 0
    /\ base' = <<>>
    /\ UNCHANGED <<toolVars, DIR, last_sync, now, syncVars, calls, pre, log, written, replaced, readerVars>>

Validate == \E schema_name \in Names("Schema") : ValidateData(schema_name)

GetReference == \E name \in Names("Reference") : Get("Reference", name)

\* ---------------------------------------------------------------- refresh

Item == Items[idx]

\* errors.append(f"Schema {name}: HTTP {resp.status_code}") and
\* errors.append(f"Schema {name}: {exc}"): the item named, and which of the two
\* texts follows the name.
ItemError(it, form) == [kind |-> it.kind, name |-> it.name, form |-> form]

\* errors.append(f"GitHub sync failed: {exc}")
SyncError == [kind |-> "GitHub sync failed", name |-> "", form |-> "exc"]

\* The end of one pass of the loop body: the next item, or the end of the
\* second loop and of the with block.
NextItem ==
    /\ data' = <<>>
    /\ IF idx < NItems
       THEN /\ idx' = idx + 1
            /\ pc' = "fetch"
       ELSE /\ idx' = idx
            /\ pc' = "finish"

\* A handler placed around the loop instead of inside it: the first failure
\* ends the iteration.
ItemExceptEndsLoop ==
    /\ errors' = Append(errors, ItemError(Item, "exc"))
    /\ data' = <<>>
    /\ idx' = idx
    /\ pc' = "finish"

\* The handler `except Exception as exc` of the loop body.
ItemExcept ==
    /\ errors' = Append(errors, ItemError(Item, "exc"))
    /\ NextItem

\* The history of the item whose pass ends: what its fetch and its store did.
Logged(outcome) ==
    log' = Append(log, [kind |-> Item.kind, name |-> Item.name, doc |-> data, outcome |-> outcome])

\* sync_schemas_from_github is called: its locals are set.
SyncStart ==
    /\ pc = "idle"
    /\ calls < MaxCalls
    /\ pc' = "client"
    /\ idx' = 0
    /\ data' = <<>>
    /\ errors' = <<>>
    /\ updated' = [Schema |-> 0, Reference |-> 0]
    /\ summary' = <<>>
    /\ \E up \in BOOLEAN : originUp' = up
    /\ calls' = calls + 1
    /\ pre' = <<Snapshot>>
    /\ log' = <<>>
    /\ written' = {}
    /\ base' = IF streak = 0 THEN <<Snapshot>> ELSE base
    /\ rd' = IF rpc = "idle" THEN <<>> ELSE rd
    /\ UNCHANGED <<toolVars, CACHE, DIR, last_sync, now, replaced, streak, readerVars>>

\* A loop that starts at the second entry of the list.
ClientOpenSkipsFirst ==
    /\ pc = "client"
    /\ pc' = "fetch"
    /\ idx' = 2
    /\ UNCHANGED <<toolVars, CACHE, DIR, last_sync, now, data, errors, updated, summary, originUp,
                   histVars, rd, readerVars>>

\* httpx.Client(timeout=30, follow_redirects=True) is entered.
ClientOpen ==
    /\ pc = "client"
    /\ pc' = "fetch"
    /\ idx' = 1
    /\ UNCHANGED <<toolVars, CACHE, DIR, last_sync, now, data, errors, updated, summary, originUp,
                   histVars, rd, readerVars>>

\* Without the outer handler the exception leaves the function.
ClientFailPropagates ==
    /\ pc = "client"
    /\ pc' = "raised"
    /\ UNCHANGED <<toolVars, CACHE, DIR, last_sync, now, idx, data, errors, updated, summary, originUp,
                   histVars, rd, readerVars>>

\* Creating the client raises: the outer handler records it, no item is tried.
ClientFail ==
    /\ pc = "client"
    /\ errors' = Append(errors, SyncError)
    /\ pc' = "finish"
    /\ UNCHANGED <<toolVars, CACHE, DIR, last_sync, now, idx, data, updated, summary, originUp,
                   histVars, rd, readerVars>>

\* A handler that drops the cache entry of the item it could not fetch.
FetchRaisesEvicts ==
    /\ pc = "fetch"
    /\ ItemExcept
    /\ Logged("fetch failed")
    /\ CACHE' = [CACHE EXCEPT ![Item.kind] = [n \in (DOMAIN @) \ {Item.name} |-> @[n]]]
    /\ UNCHANGED <<toolVars, DIR, last_sync, now, updated, summary, originUp,
                   calls, pre, written, replaced, streak, base, rd, readerVars>>

\* client.get(url) raises (no connection, timeout).
FetchRaises ==
    /\ pc = "fetch"
    /\ ItemExcept
    /\ Logged("fetch failed")
    /\ UNCHANGED <<toolVars, CACHE, DIR, last_sync, now, updated, summary, originUp,
                   calls, pre, written, replaced, streak, base, rd, readerVars>>

\* The response is not a success: the else branch.
FetchStatus ==
    /\ pc = "fetch"
    /\ originUp
    /\ errors' = Append(errors, ItemError(Item, "HTTP"))
    /\ NextItem
    /\ Logged("fetch failed")
    /\ UNCHANGED <<toolVars, CACHE, DIR, last_sync, now, updated, summary, originUp,
                   calls, pre, written, replaced, streak, base, rd, readerVars>>

\* The response is a success and resp.json() raises.
FetchBadBody ==
    /\ pc = "fetch"
    /\ originUp
    /\ ItemExcept
    /\ Logged("fetch failed")
    /\ UNCHANGED <<toolVars, CACHE, DIR, last_sync, now, updated, summary, originUp,
                   calls, pre, written, replaced, streak, base, rd, readerVars>>

\* The response is a success and its body parses: data = resp.json().
FetchOk ==
    /\ pc = "fetch"
    /\ originUp
    /\ \E d \in Docs : data' = <<d>>
    /\ pc' = "assign"
    /\ UNCHANGED <<toolVars, CACHE, DIR, last_sync, now, idx, errors, updated, summary, originUp,
                   histVars, rd, readerVars>>

\* _SCHEMA_CACHE[name] = data / _REFERENCE_CACHE[ref_name] = data
Assign ==
    /\ pc = "assign"
    /\ CACHE' = [CACHE EXCEPT ![Item.kind] = Put(@, Item.name, data[1])]
    /\ written' = written \cup {Item}
    /\ replaced' = [replaced EXCEPT ![Item.kind] = Put(@, Item.name, data[1])]
    /\ pc' = "mkdir"
    /\ UNCHANGED <<toolVars, DIR, last_sync, now, idx, data, errors, updated, summary, originUp,
                   calls, pre, log, streak, base, rd, readerVars>>

\* path.parent.mkdir(parents=True, exist_ok=True)
Mkdir ==
    /\ pc = "mkdir"
    /\ pc' = "open"
    /\ UNCHANGED <<toolVars, CACHE, DIR, last_sync, now, idx, data, errors, updated, summary, originUp,
                   histVars, rd, readerVars>>

\* mkdir raises, or write_text cannot open the file: the file is as it was.
StoreRefused ==
    /\ pc \in {"mkdir", "open"}
    /\ ItemExcept
    /\ Logged("store failed")
    /\ UNCHANGED <<toolVars, CACHE, DIR, last_sync, now, updated, summary, originUp,
                   calls, pre, written, replaced, streak, base, rd, readerVars>>

\* write_text opens the file for writing: it exists and is empty.
Open ==
    /\ pc = "open"
    /\ DIR' = [DIR EXCEPT ![Item.kind] = Put(@, Item.name, <<>>)]
    /\ pc' = "write"
    /\ UNCHANGED <<toolVars, CACHE, last_sync, now, idx, data, errors, updated, summary, originUp,
                   histVars, rd, readerVars>>

\* A write that stays in a buffer: the item is counted, the file is not
\* written.
WriteBuffered ==
    /\ pc = "write"
    /\ updated' = [updated EXCEPT ![Item.kind] = @ + 1]
    /\ NextItem
    /\ Logged("updated")
    /\ UNCHANGED <<toolVars, CACHE, DIR, last_sync, now, errors, summary, originUp,
                   calls, pre, written, replaced, streak, base, rd, readerVars>>

\* write_text writes json.dumps(data, indent=2) and closes; the counter is
\* incremented.
Write ==
    /\ pc = "write"
    /\ DIR' = [DIR EXCEPT ![Item.kind] = Put(@, Item.name, JsonDumps(data[1]))]
    /\ updated' = [updated EXCEPT ![Item.kind] = @ + 1]
    /\ NextItem
    /\ Logged("updated")
    /\ UNCHANGED <<toolVars, CACHE, last_sync, now, errors, summary, originUp,
                   calls, pre, written, replaced, streak, base, rd, readerVars>>

\* A store whose failure is recorded as an error and counted as an update.
WriteFailCounted ==
    /\ pc = "write"
    /\ updated' = [updated EXCEPT ![Item.kind] = @ + 1]
    /\ ItemExcept
    /\ Logged("store failed")
    /\ UNCHANGED <<toolVars, CACHE, DIR, last_sync, now, summary, originUp,
                   calls, pre, written, replaced, streak, base, rd, readerVars>>

\* The write raises (disk full): the file stays cut off.
WriteFail ==
    /\ pc = "write"
    /\ ItemExcept
    /\ Logged("store failed")
    /\ UNCHANGED <<toolVars, CACHE, DIR, last_sync, now, updated, summary, originUp,
                   calls, pre, written, replaced, streak, base, rd, readerVars>>

\* datetime.isoformat: the text of a timestamp.
IsoFormat(t) == [iso |-> t]

\* A refresh that records its time only when no item failed.
SyncFinishOnSuccess ==
    /\ pc = "finish"
    /\ now' = now + 1
    /\ last_sync' = IF errors = <<>> THEN <<now'>> ELSE last_sync
    /\ summary' = <<[schemas_updated |-> updated.Schema,
                     references_updated |-> updated.Reference,
                     errors |-> errors,
                     synced_at |-> IsoFormat(now')]>>
    /\ pc' = "done"
    /\ streak' = IF originUp THEN 0 ELSE streak + 1
    /\ base' = IF originUp THEN <<>> ELSE base
    /\ UNCHANGED <<toolVars, CACHE, DIR, idx, data, errors, updated, originUp,
                   calls, pre, log, written, replaced, rd, readerVars>>

\* _last_sync = datetime.now(tz=UTC); the summary is built and returned.
SyncFinish ==
    /\ pc = "finish"
    /\ now' = now + 1
    /\ last_sync' = <<now'>>
    /\ summary' = <<[schemas_updated |-> updated.Schema,
                     references_updated |-> updated.Reference,
                     errors |-> errors,
                     synced_at |-> IsoFormat(last_sync'[1])]>>
    /\ pc' = "done"
    /\ streak' = IF originUp THEN 0 ELSE streak + 1
    /\ base' = IF originUp THEN <<>> ELSE base
    /\ UNCHANGED <<toolVars, CACHE, DIR, idx, data, errors, updated, originUp,
                   calls, pre, log, written, replaced, rd, readerVars>>

\* The summary has been returned and the locals of the call are gone.
SyncReturn ==
    /\ pc = "done"
    /\ pc' = "idle"
    /\ idx' = 0
    /\ errors' = <<>>
    /\ updated' = [Schema |-> 0, Reference |-> 0]
    /\ summary' = <<>>
    /\ log' = <<>>
    /\ written' = {}
    /\ originUp' = TRUE
    /\ pre' = <<>>
    /\ UNCHANGED <<toolVars, CACHE, DIR, last_sync, now, data, calls, replaced, streak, base, rd, readerVars>>

\* The process ends, at any point, and starts again: module initialisation.
Restart ==
    /\ rpc = "idle"
    /\ calls > 0
    /\ CACHE' = [Schema |-> EmptyMap, Reference |-> EmptyMap]
    /\ last_sync' = <<>>
    /\ pc' = "idle"
    /\ idx' = 0
    /\ data' = <<>>
    /\ errors' = <<>>
    /\ updated' = [Schema |-> 0, Reference |-> 0]
    /\ summary' = <<>>
    /\ originUp' = TRUE
    /\ log' = <<>>
    /\ written' = {}
    /\ streak' = 0
    /\ rd' = <<>>
    /\ pre' = <<>>
    /\ base' = <<>>
    /\ replaced' = [Schema |-> EmptyMap, Reference |-> EmptyMap]
    /\ UNCHANGED <<toolVars, DIR, now, calls, readerVars>>

SyncBody ==
    \/ ClientOpen
    \/ ClientFail
    \/ FetchRaises
    \/ FetchStatus
    \/ FetchBadBody
    \/ FetchOk
    \/ Assign
    \/ Mkdir
    \/ StoreRefused
    \/ Open
    \/ Write
    \/ WriteFail
    \/ SyncFinish
    \/ SyncReturn

Sync ==
    \/ SyncStart
    \/ SyncBody

\* ---------------------------------------------------------------- a reader thread

ReadOutcome(res) == <<[kind |-> rkey.kind, name |-> rkey.name, res |-> res]>>

\* A request thread calls _get_schema(name) or _get_reference(name).
RdBegin ==
    /\ rpc = "idle"
    /\ \E kind \in Kinds : \E name \in Names(kind) : rkey' = [kind |-> kind, name |-> name]
    /\ rpc' = "check"
    /\ rloaded' = <<>>
    /\ rcall' = [calls |-> calls, running |-> pc # "idle"]
    /\ rd' = <<>>
    /\ UNCHANGED <<toolVars, CACHE, DIR, last_sync, now, syncVars, histVars>>

\* if name not in _SCHEMA_CACHE
RdCheck ==
    /\ rpc = "check"
    /\ rpc' = IF rkey.name \in DOMAIN CACHE[rkey.kind] THEN "return" ELSE "exists"
    /\ UNCHANGED <<toolVars, CACHE, DIR, last_sync, now, syncVars, histVars, rd, rkey, rloaded, rcall>>

\* if not path.exists(): raise FileNotFoundError
RdExists ==
    /\ rpc = "exists"
    /\ IF rkey.name \in DOMAIN DIR[rkey.kind]
       THEN /\ rpc' = "load"
            /\ rd' = rd
       ELSE /\ rpc' = "done"
            /\ rd' = ReadOutcome(Raised("FileNotFoundError"))
    /\ UNCHANGED <<toolVars, CACHE, DIR, last_sync, now, syncVars, histVars, rkey, rloaded, rcall>>

\* _load_json(path): the text the file holds now is read and parsed.
RdLoad ==
    /\ rpc = "load"
    /\ IF LoadJson(DIR[rkey.kind][rkey.name]).status = "ok"
       THEN /\ rloaded' = LoadJson(DIR[rkey.kind][rkey.name]).doc
            /\ rpc' = "store"
            /\ rd' = rd
       ELSE /\ rloaded' = rloaded
            /\ rpc' = "done"
            /\ rd' = ReadOutcome(LoadJson(DIR[rkey.kind][rkey.name]))
    /\ UNCHANGED <<toolVars, CACHE, DIR, last_sync, now, syncVars, histVars, rkey, rcall>>

\* _SCHEMA_CACHE[name] = the parsed document
RdStore ==
    /\ rpc = "store"
    /\ CACHE' = [CACHE EXCEPT ![rkey.kind] = Put(@, rkey.name, rloaded[1])]
    /\ rpc' = "return"
    /\ UNCHANGED <<toolVars, DIR, last_sync, now, syncVars, histVars, rd, rkey, rloaded, rcall>>

\* return _SCHEMA_CACHE[name]
RdReturn ==
    /\ rpc = "return"
    /\ rd' = ReadOutcome(Ok(CACHE[rkey.kind][rkey.name]))
    /\ rpc' = "done"
    /\ UNCHANGED <<toolVars, CACHE, DIR, last_sync, now, syncVars, histVars, rkey, rloaded, rcall>>

\* The caller has the outcome; the thread takes the next request.
RdEnd ==
    /\ rpc = "done"
    /\ rpc' = "idle"
    /\ rd' = <<>>
    /\ rloaded' = <<>>
    /\ UNCHANGED <<toolVars, CACHE, DIR, last_sync, now, syncVars, histVars, rkey, rcall>>

Reader ==
    \/ RdBegin
    \/ RdCheck
    \/ RdExists
    \/ RdLoad
    \/ RdStore
    \/ RdReturn
    \/ RdEnd

\* One thread at a time: a call runs to its end before the next operation.
Next ==
    \/ Sync
    \/ GetSchema
    \/ GetReference
    \/ Validate
    \/ Restart

Spec == Init /\ [][Next]_vars

\* The first refresh of the process and a reader thread, interleaved at every
\* step.
ConcNext ==
    \/ (calls = 0 /\ SyncStart)
    \/ SyncBody
    \/ Reader

ConcSpec == Init /\ [][ConcNext]_vars

\* The refresh alone; a call that has started keeps taking steps.
FairSpec == Init /\ [][Sync]_vars /\ WF_vars(SyncBody)

\* ---------------------------------------------------------------- lookup tools

\* A string is a sequence of characters; a record is a sequence of fields (a
\* dict in insertion order), each a key and a string value; an optional
\* argument is <<>> (None) or <<the string>>.
Field(key, val) == [key |-> key, val |-> val]

\* The characters of a key.
KeyText(key) ==
    CASE key = "id" -> <<"i", "d">>
      [] key = "name" -> <<"n", "a", "m", "e">>
      [] key = "fullName" -> <<"f", "u", "l", "l", "N", "a", "m", "e">>
      [] key = "terpene" -> <<"t", "e", "r", "p", "e", "n", "e">>

\* The records the datasets may hold: one with an id and a name, one with an
\* id only, one with an id, a name and a full name.
Named == <<Field("id", <<"t", "1">>), Field("name", <<"A", "b">>)>>
Nameless == <<Field("id", <<"t", "2">>)>>
FullNamed ==
    <<Field("id", <<"c", "1">>), Field("name", <<"B">>), Field("fullName", <<"a", "B">>)>>

RecordPool == {Named, Nameless, FullNamed}

\* An entry of the colour dataset, and the lists that dataset may hold.
Coloured == <<Field("terpene", <<"A", "b">>)>>
ColourLists == {<<>>, <<Coloured>>}

\* The lists of at most n records.
RecordLists(n) == UNION {[1 .. k -> RecordPool] : k \in 0 .. n}

\* The arguments the tools are called with.
IdArgs == {<<>>, <<<<>>>>, <<<<"t", "1">>>>, <<<<"c", "1">>>>}
NameArgs == {<<>>, <<<<>>>>, <<<<"a", "B">>>>, <<<<"b">>>>}
Queries == {<<>>, <<"a", "B">>, <<"N">>, <<"1", "\"">>, <<"z">>}

\* str.lower, character by character.
LowerChar(c) ==
    CASE c = "A" -> "a"
      [] c = "B" -> "b"
      [] c = "N" -> "n"
      [] OTHER -> c

Lower(str) == [i \in 1 .. Len(str) |-> LowerChar(str[i])]

\* q in text
Contains(text, q) == \E i \in 0 .. Len(text) - Len(q) : SubSeq(text, i + 1, i + Len(q)) = q

\* json.dumps of a string, of a field and of a record.
DumpsStr(str) == <<"\"">> \o str \o <<"\"">>

DumpsField(f) == DumpsStr(KeyText(f.key)) \o <<":", " ">> \o DumpsStr(f.val)

RECURSIVE DumpsFields(_)
DumpsFields(t) ==
    IF t = <<>> THEN <<>>
    ELSE IF Len(t) = 1 THEN DumpsField(t[1])
    ELSE DumpsField(t[1]) \o <<",", " ">> \o DumpsFields(Tail(t))

Dumps(t) == <<"{">> \o DumpsFields(t) \o <<"}">>

Keys(t) == {t[i].key : i \in 1 .. Len(t)}

\* t.get(key): <<>> is None.
GetField(t, key) ==
    IF key \in Keys(t) THEN <<(CHOOSE i \in 1 .. Len(t) : t[i].key = key)>> ELSE <<>>

DictGet(t, key) == IF key \in Keys(t) THEN <<t[GetField(t, key)[1]].val>> ELSE <<>>

\* t.get(key, "")
GetOrEmpty(t, key) == IF key \in Keys(t) THEN DictGet(t, key)[1] ELSE <<>>

\* The truth value of an optional string argument: None and "" are false.
Truthy(arg) == arg # <<>> /\ arg[1] # <<>>

\* The test of one pass of the lookup loop; names lists the keys compared
\* with the name argument.
Matches(t, id, name, names) ==
    \/ Truthy(id) /\ DictGet(t, "id") = id
    \/ Truthy(name) /\ \E key \in names : Lower(GetOrEmpty(t, key)) = Lower(name[1])

\* The first record of the loop that matches: <<>> or <<its index>>.
FirstMatch(records, id, name, names) ==
    LET hits == {i \in 1 .. Len(records) : Matches(records[i], id, name, names)}
    IN  IF hits = {} THEN <<>> ELSE <<(CHOOSE i \in hits : \A j \in hits : i <= j)>>

\* One entry of `available`: t["name"], and for a cannabinoid
\* f"{c['name']} ({c.get('fullName', '')})".
Available(t, names) ==
    IF names = {"name"} THEN DictGet(t, "name")[1]
    ELSE DictGet(t, "name")[1] \o <<" ", "(">> \o GetOrEmpty(t, "fullName") \o <<")">>

\* get_terpene_info / get_cannabinoid_info on a record list: the record
\* found, or the not-found result, or the KeyError of t["name"].
Lookup(records, id, name, names) ==
    LET m == FirstMatch(records, id, name, names)
    IN  IF m # <<>>
        THEN [status |-> "ok", found |-> <<records[m[1]]>>, available |-> <<>>]
        ELSE IF \E i \in 1 .. Len(records) : "name" \notin Keys(records[i])
        THEN [status |-> "KeyError", found |-> <<>>, available |-> <<>>]
        ELSE [status |-> "ok", found |-> <<>>,
              available |-> [i \in 1 .. Len(records) |-> Available(records[i], names)]]

\* _extract_match_context: the keys whose serialised value contains the query.
ExtractMatchContext(t, q) ==
    LET hit == SelectSeq(t, LAMBDA f : Contains(Lower(DumpsStr(f.val)), Lower(q)))
    IN  [i \in 1 .. Len(hit) |-> hit[i].key]

\* One loop of search_reference_data over a record list.
SearchIn(type, records, q) ==
    LET hit == SelectSeq(records, LAMBDA t : Contains(Lower(Dumps(t)), q))
    IN  [i \in 1 .. Len(hit) |->
            [type |-> type, id |-> DictGet(hit[i], "id"), name |-> DictGet(hit[i], "name"),
             matchContext |-> ExtractMatchContext(hit[i], q)]]

\* search_reference_data: the terpene library, then the cannabinoid library.
Search(query) ==
    LET q == Lower(query)
        results == SearchIn("terpene", content["terpene-library"], q)
                   \o SearchIn("cannabinoid", content["cannabinoid-library"], q)
    IN  [query |-> query, resultCount |-> Len(results), results |-> results]

Called(tool, id, name, query, res) ==
    <<[tool |-> tool, id |-> id, name |-> name, query |-> query, res |-> res]>>

GetTerpeneInfo ==
    \E terpene_id \in IdArgs, name \in NameArgs :
        /\ out' = Called("get_terpene_info", terpene_id, name, <<>>,
                         Lookup(content["terpene-library"], terpene_id, name, {"name"}))
        /\ UNCHANGED <<content, CACHE, DIR, last_sync, now, syncVars, histVars, rd, readerVars>>

GetCannabinoidInfo ==
    \E cannabinoid_id \in IdArgs, name \in NameArgs :
        /\ out' = Called("get_cannabinoid_info", cannabinoid_id, name, <<>>,
                         Lookup(content["cannabinoid-library"], cannabinoid_id, name,
                                {"name", "fullName"}))
        /\ UNCHANGED <<content, CACHE, DIR, last_sync, now, syncVars, histVars, rd, readerVars>>

SearchReferenceData ==
    \E query \in Queries :
        /\ out' = Called("search_reference_data", <<>>, <<>>, query, Search(query))
        /\ UNCHANGED <<content, CACHE, DIR, last_sync, now, syncVars, histVars, rd, readerVars>>

\* The tools as functions of the reference documents: every content of the
\* three datasets within the bounds, every call in every order.
ToolInit ==
    /\ CatalogInit({}, {})
    /\ \E terpenes \in RecordLists(MaxRecords), cannabinoids \in RecordLists(MaxRecords),
          colors \in ColourLists :
            content = [ds \in Range(Datasets) |->
                          CASE ds = "terpene-library" -> terpenes
                            [] ds = "cannabinoid-library" -> cannabinoids
                            [] ds = "terpene-colors" -> colors]
    /\ out = <<>>

ToolNext ==
    \/ GetTerpeneInfo
    \/ GetCannabinoidInfo
    \/ SearchReferenceData

ToolSpec == ToolInit /\ [][ToolNext]_vars

\* ---------------------------------------------------------------- properties

\* Whether name has the same entry (absent, or the same value) in f and g.
SameEntry(f, g, name) ==
    /\ (name \in DOMAIN f) = (name \in DOMAIN g)
    /\ name \in DOMAIN f => f[name] = g[name]

Holds(f, name, v) == name \in DOMAIN f /\ f[name] = v

OtherKind(kind) == IF kind = "Schema" THEN "Reference" ELSE "Schema"

\* A step of _get_schema / _get_reference run to completion, in Spec.
IsGetStep ==
    pc = "idle" /\ pc' = "idle" /\ rpc = "idle" /\ rd' # <<>> /\ rd'[1].kind \in Kinds

\* C1: _get_schema(name) / _get_reference(name) returns the cached document
\* when the name is cached; otherwise, when storage holds a document for the
\* name, it returns that document and puts it in the cache; it raises
\* FileNotFoundError exactly when the name is neither cached nor in storage;
\* a call that raises leaves the cache as it was.
C1_GetContract ==
    [][IsGetStep =>
        LET r == rd'[1]
            c == CACHE[r.kind]
            f == DIR[r.kind]
            n == r.name
        IN  /\ n \in DOMAIN c => r.res = Ok(c[n]) /\ CACHE' = CACHE
            /\ (n \notin DOMAIN c /\ n \in DOMAIN f /\ Len(f[n]) = 1) =>
                    /\ r.res = Ok(f[n][1])
                    /\ Holds(CACHE'[r.kind], n, f[n][1])
                    /\ \A m \in Names(r.kind) \ {n} : SameEntry(c, CACHE'[r.kind], m)
                    /\ CACHE'[OtherKind(r.kind)] = CACHE[OtherKind(r.kind)]
            /\ (r.res.status = "FileNotFoundError") <=> (n \notin DOMAIN c /\ n \notin DOMAIN f)
            /\ r.res.status # "ok" => CACHE' = CACHE
    ]_vars

\* A name that the restarted process had not cached was loaded from the file
\* an earlier refresh wrote.
C1_Witness ==
    /\ pc = "idle"
    /\ rd # <<>>
    /\ rd[1].kind \in Kinds
    /\ last_sync = <<>>
    /\ rd[1].res.status = "ok"
    /\ rd[1].res.doc[1] # Bundled
    /\ Holds(CACHE[rd[1].kind], rd[1].name, rd[1].res.doc[1])

InCall == pre # <<>>

LogKey(e) == [kind |-> e.kind, name |-> e.name]

\* C2: at the end of a refresh, every item whose fetch failed is named by an
\* error string, its cache entry and its file are as they were when the
\* refresh started, and every later item has been attempted.
C2_FailedFetchIsolated ==
    pc = "done" =>
        \A i \in 1 .. Len(log) :
            log[i].outcome = "fetch failed" =>
                /\ \E j \in 1 .. Len(errors) :
                        errors[j].kind = log[i].kind /\ errors[j].name = log[i].name
                /\ SameEntry(pre[1].CACHE[log[i].kind], CACHE[log[i].kind], log[i].name)
                /\ SameEntry(pre[1].DIR[log[i].kind], DIR[log[i].kind], log[i].name)
                /\ Len(log) = NItems
                /\ \A j \in i + 1 .. NItems : LogKey(log[j]) = Items[j]

\* A refresh ended whose first item failed to fetch and whose next item was
\* updated.
C2_Witness ==
    /\ pc = "done"
    /\ Len(log) = NItems
    /\ log[1].outcome = "fetch failed"
    /\ log[2].outcome = "updated"
    /\ Holds(CACHE[log[2].kind], log[2].name, log[2].doc[1])

C4_ReplaceAllOrNothing ==
    \A i \in 1 .. Len(log) :
        \/ /\ log[i].doc # <<>>
           /\ Holds(CACHE[log[i].kind], log[i].name, log[i].doc[1])
           /\ Holds(DIR[log[i].kind], log[i].name, JsonDumps(log[i].doc[1]))
        \/ /\ SameEntry(pre[1].CACHE[log[i].kind], CACHE[log[i].kind], log[i].name)
           /\ SameEntry(pre[1].DIR[log[i].kind], DIR[log[i].kind], log[i].name)

Count(kind, S) == Cardinality({it \in S : it.kind = kind})

\* C5 as stated: the returned counts are the numbers of schema names and of
\* reference names whose cache entry this call assigned.
C5_CountsAreCacheWrites ==
    pc = "done" =>
        /\ summary[1].schemas_updated = Count("Schema", written)
        /\ summary[1].references_updated = Count("Reference", written)

\* C6: _last_sync is None from the start of the process until a refresh call
\* completes; every completing call, with or without errors, sets it to the
\* time read at its completion, and the returned synced_at is the text of that
\* same value.
C6_LastSyncSetByEveryCall ==
    /\ last_sync = <<>>
    /\ [][pc = "done" \/ pc' # "done" => last_sync' = last_sync \/ last_sync' = <<>>]_vars
    /\ [][pc # "done" /\ pc' = "done" =>
            /\ last_sync' = <<now'>>
            /\ now' > now
            /\ Len(summary') = 1
            /\ summary'[1].synced_at = IsoFormat(last_sync'[1])]_vars

\* A refresh in which every item failed has completed and set the timestamp.
C6_Witness ==
    /\ pc = "done"
    /\ Len(errors) = NItems
    /\ updated = [Schema |-> 0, Reference |-> 0]
    /\ last_sync = <<now>>
    /\ summary[1].synced_at = IsoFormat(now)

Running == pc \notin {"idle", "done"}

\* C7: a refresh call that has started always reaches its return with a
\* summary, whatever fails on the way, and never leaves by an exception.
C7_AlwaysReturnsSummary ==
    /\ [](pc # "raised")
    /\ [](pc = "done" => Len(summary) = 1)
    /\ Running ~> pc = "done"

\* A refresh returned its summary after a failed fetch and a failed store.
C7_Witness ==
    /\ pc = "done"
    /\ Len(summary) = 1
    /\ \E i, j \in 1 .. Len(log) :
            log[i].outcome = "fetch failed" /\ log[j].outcome = "store failed"
    /\ Len(summary[1].errors) = NItems

\* C8: a refresh call during which the origin is unreachable returns zero
\* counts and a non-empty error list, and after each call of a row of such
\* calls both caches and both directories are what they were before the first
\* call of the row.
C8_UnreachableIdempotent ==
    (pc = "done" /\ ~originUp) =>
        /\ summary[1].schemas_updated = 0
        /\ summary[1].references_updated = 0
        /\ summary[1].errors # <<>>
        /\ streak >= 1
        /\ Snapshot = base[1]

\* The second of two refreshes in a row with the origin unreachable has
\* returned, with a document in the cache.
C8_Witness ==
    /\ pc = "done"
    /\ ~originUp
    /\ streak = 2
    /\ \E kind \in Kinds : DOMAIN CACHE[kind] # {}

Fetches(kind, name) == {i \in 1 .. Len(log) : log[i].kind = kind /\ log[i].name = name}

\* C9 as stated: when the loops of a refresh are over, every name that was in
\* storage when the refresh started has been fetched exactly once.
C9_StoredNamesFetchedOnce ==
    pc \in {"finish", "done"} =>
        \A kind \in Kinds : \A name \in DOMAIN pre[1].DIR[kind] :
            Cardinality(Fetches(kind, name)) = 1

\* C9 amended: a refresh that obtains its HTTP client fetches exactly the
\* configured names (_GITHUB_SCHEMA_FILES, then the keys of
\* _GITHUB_REFERENCE_MAP), each once and in that order; a name that is in
\* storage and not configured is not fetched; a refresh that cannot create its
\* client fetches nothing.
C9_ConfiguredNamesFetchedOnce ==
    pc \in {"finish", "done"} =>
        IF \E j \in 1 .. Len(errors) : errors[j] = SyncError
        THEN log = <<>>
        ELSE /\ Len(log) = NItems
             /\ \A i \in 1 .. NItems : LogKey(log[i]) = Items[i]

\* A refresh is over that fetched every configured name while storage held a
\* name that is not configured.
C9_Witness ==
    /\ pc = "done"
    /\ Len(log) = NItems
    /\ \E kind \in Kinds : DOMAIN pre[1].DIR[kind] \ Listed(kind) # {}

\* The documents the current refresh has fetched for a key.
FetchedDocs(key) ==
    {log[i].doc[1] : i \in {j \in 1 .. Len(log) : LogKey(log[j]) = key /\ log[j].doc # <<>>}}
    \cup (IF pc \in {"assign", "mkdir", "open", "write"} /\ Item = key THEN {data[1]} ELSE {})

\* C10 as stated: a read that ends while a refresh is running (or has just
\* ended) has the outcome it would have had before the refresh, or returns the
\* document the refresh fetched for its key.
C10_ReadSeesPreOrPost ==
    (rpc = "done" /\ InCall) =>
        \/ rd[1].res = GetResult(pre[1].CACHE[rkey.kind], pre[1].DIR[rkey.kind], rkey.name)
        \/ rd[1].res.status = "ok" /\ rd[1].res.doc[1] \in FetchedDocs(rkey)

\* A step of validate_data run to completion, in Spec.
IsValidateStep ==
    pc = "idle" /\ pc' = "idle" /\ rpc = "idle" /\ rd' # <<>> /\ rd'[1].kind = "validate"

\* The stored schema names whose documents carry an "$id".
Identified(dir) == {sn \in DOMAIN dir : HasId(sn)}

\* C11: a validate_data call that returns builds its registry from the
\* documents the catalog holds when it is called: every stored schema with an
\* "$id" resolves to its cache entry, or to its stored document when it was
\* not cached; a schema that a refresh of this process has replaced resolves
\* to the document of the last replacement, never to an older one.
C11_ValidateResolvesCurrent ==
    [][(IsValidateStep /\ rd'[1].res.status = "ok") =>
        LET registry == rd'[1].registry
        IN  /\ DOMAIN registry = Identified(DIR.Schema)
            /\ \A sn \in DOMAIN registry :
                    /\ Ok(registry[sn]) = GetResult(CACHE.Schema, DIR.Schema, sn)
                    /\ Holds(CACHE'.Schema, sn, registry[sn])
            /\ \A sn \in DOMAIN replaced.Schema : Holds(registry, sn, replaced.Schema[sn])
    ]_vars

\* validate_data has returned after a refresh replaced a schema whose store
\* failed: the registry holds the replacement, the file does not.
C11_Witness ==
    /\ pc = "idle"
    /\ rd # <<>>
    /\ rd[1].kind = "validate"
    /\ rd[1].res.status = "ok"
    /\ \E sn \in DOMAIN replaced.Schema :
            /\ Holds(rd[1].registry, sn, replaced.Schema[sn])
            /\ replaced.Schema[sn] # Bundled
            /\ DIR.Schema[sn] # JsonDumps(replaced.Schema[sn])

\* A step of _get_schema / _get_reference for a name that is not cached and
\* whose stored file does not parse.
IsMalformedGetStep ==
    /\ IsGetStep
    /\ rd'[1].name \notin DOMAIN CACHE[rd'[1].kind]
    /\ rd'[1].name \in DOMAIN DIR[rd'[1].kind]
    /\ Len(DIR[rd'[1].kind][rd'[1].name]) # 1

\* C14 as stated: a read of an uncached name whose stored file does not parse
\* fails with the error of a missing name, and caches nothing.
C14_MalformedIsNotFound ==
    [][IsMalformedGetStep =>
        /\ rd'[1].res = Raised("FileNotFoundError")
        /\ CACHE' = CACHE
    ]_vars

\* C14 amended: a read of an uncached name whose stored file does not parse
\* raises the JSON decode error (not the error of a missing name), returns no
\* document, and leaves both caches as they were.
C14_MalformedRaisesDecodeError ==
    [][IsMalformedGetStep =>
        /\ rd'[1].res = Raised("JSONDecodeError")
        /\ rd'[1].res # Raised("FileNotFoundError")
        /\ CACHE' = CACHE
    ]_vars

\* After a restart, a read of a name whose file a failed write left cut off
\* has raised.
C14_Witness ==
    /\ pc = "idle"
    /\ rd # <<>>
    /\ rd[1].kind \in Kinds
    /\ rd[1].res.status = "JSONDecodeError"
    /\ rd[1].name \notin DOMAIN CACHE[rd[1].kind]
    /\ DIR[rd[1].kind][rd[1].name] = <<>>

\* C15 as stated: a validate_data call leaves both caches, both directories
\* and _last_sync exactly as they were.
C15_ValidateChangesNothing ==
    [][IsValidateStep => CACHE' = CACHE /\ DIR' = DIR /\ last_sync' = last_sync]_vars

\* C15 amended: a validate_data call, returning or raising, leaves both
\* directories, _last_sync and the reference cache as they were and changes no
\* entry the schema cache had; it adds schema cache entries only for stored
\* names that were not cached, each with the document its file holds.
C15_ValidateOnlyPopulates ==
    [][IsValidateStep =>
        /\ DIR' = DIR
        /\ last_sync' = last_sync
        /\ CACHE'.Reference = CACHE.Reference
        /\ \A sn \in DOMAIN CACHE.Schema : Holds(CACHE'.Schema, sn, CACHE.Schema[sn])
        /\ \A sn \in (DOMAIN CACHE'.Schema) \ DOMAIN CACHE.Schema :
                /\ sn \in DOMAIN DIR.Schema
                /\ DIR.Schema[sn] = JsonDumps(CACHE'.Schema[sn])
    ]_vars

\* validate_data has returned with a schema cached that no read had asked
\* for, beside a replaced schema whose file holds another document.
C15_Witness ==
    /\ pc = "idle"
    /\ rd # <<>>
    /\ rd[1].kind = "validate"
    /\ rd[1].name = "strain"
    /\ "custom" \in DOMAIN CACHE.Schema
    /\ "strain" \in DOMAIN replaced.Schema
    /\ DIR.Schema["strain"] # JsonDumps(CACHE.Schema["strain"])

\* The configured items of a kind, and the errors recorded for an item.
ItemsOf(kind) == {i \in 1 .. NItems : Items[i].kind = kind}

ErrorsOf(it) == {j \in 1 .. Len(errors) : errors[j].kind = it.kind /\ errors[j].name = it.name}

\* The configured items that have an error, in item order.
FailedItems == SelectSeq(Items, LAMBDA it : ErrorsOf(it) # {})

\* C16 as stated: the counts and the number of errors of a returned summary
\* add up to the number of configured items.
C16_OutcomesAddUp ==
    pc = "done" =>
        summary[1].schemas_updated + summary[1].references_updated + Len(summary[1].errors)
            = NItems

\* C16 amended: a refresh that obtains its HTTP client gives every configured
\* item exactly one outcome, +1 to the count of its kind or one error string:
\* the counts and the number of errors add up to the number of configured
\* items, and the errors name the failed items in item order; a refresh that
\* cannot create its client returns zero counts and the single error
\* "GitHub sync failed".
C16_OutcomePerAttemptedItem ==
    pc = "done" =>
        /\ summary[1].errors = errors
        /\ IF \E j \in 1 .. Len(errors) : errors[j] = SyncError
           THEN /\ errors = <<SyncError>>
                /\ summary[1].schemas_updated = 0
                /\ summary[1].references_updated = 0
           ELSE /\ summary[1].schemas_updated + summary[1].references_updated + Len(errors)
                      = NItems
                /\ \A i \in 1 .. NItems : Cardinality(ErrorsOf(Items[i])) <= 1
                /\ summary[1].schemas_updated
                      = Cardinality({i \in ItemsOf("Schema") : ErrorsOf(Items[i]) = {}})
                /\ summary[1].references_updated
                      = Cardinality({i \in ItemsOf("Reference") : ErrorsOf(Items[i]) = {}})
                /\ Len(errors) = Len(FailedItems)
                /\ \A j \in 1 .. Len(errors) :
                        errors[j].kind = FailedItems[j].kind /\ errors[j].name = FailedItems[j].name

\* A refresh returned one error for its first item, whose store failed after
\* the file was opened, and counted its second item.
C16_Witness ==
    /\ pc = "done"
    /\ Len(errors) = 1
    /\ errors[1] # SyncError
    /\ log[1].outcome = "store failed"
    /\ DIR[log[1].kind][log[1].name] = <<>>
    /\ summary[1].schemas_updated + summary[1].references_updated = NItems - 1

\* C17 as stated: when the refresh has returned and the reader thread has
\* finished its read, every key the refresh updated has the refreshed
\* document in its cache entry and in its file.
C17_NoLostUpdate ==
    (pc = "done" /\ rpc \in {"idle", "done"}) =>
        \A i \in 1 .. Len(log) :
            log[i].outcome = "updated" =>
                /\ Holds(CACHE[log[i].kind], log[i].name, log[i].doc[1])
                /\ Holds(DIR[log[i].kind], log[i].name, JsonDumps(log[i].doc[1]))

IsLookup == out # <<>> /\ out[1].tool \in {"get_terpene_info", "get_cannabinoid_info"}

\* The record list a lookup tool reads.
LookupRecords ==
    IF out[1].tool = "get_terpene_info" THEN content["terpene-library"]
    ELSE content["cannabinoid-library"]

\* C12 as stated: whatever the dataset holds and whatever the two arguments
\* are, get_terpene_info / get_cannabinoid_info does not raise; when no
\* argument is supplied or no record matches, it returns the not-found result,
\* whose `available` has one entry per record of the dataset, beginning with
\* the name of that record.
C12_LookupNeverRaises ==
    IsLookup =>
        /\ out[1].res.status = "ok"
        /\ (~Truthy(out[1].id) /\ ~Truthy(out[1].name)) => out[1].res.found = <<>>
        /\ out[1].res.found = <<>> =>
                /\ Len(out[1].res.available) = Len(LookupRecords)
                /\ \A i \in 1 .. Len(LookupRecords) :
                        LET nm == GetOrEmpty(LookupRecords[i], "name")
                        IN  SubSeq(out[1].res.available[i], 1, Len(nm)) = nm

\* The records of a dataset whose serialised text contains the lower-cased
\* query, in record order, by id and name.
Matching(ds, q) ==
    LET hit == SelectSeq(content[ds], LAMBDA t : Contains(Lower(Dumps(t)), Lower(q)))
    IN  [i \in 1 .. Len(hit) |-> [id |-> DictGet(hit[i], "id"), name |-> DictGet(hit[i], "name")]]

RECURSIVE MatchingAll(_, _)
MatchingAll(dss, q) ==
    IF dss = <<>> THEN <<>> ELSE Matching(Head(dss), q) \o MatchingAll(Tail(dss), q)

\* C13 as stated: search_reference_data returns exactly the records of every
\* reference dataset whose serialised text contains the query without regard
\* to case, each once, in dataset order and then record order, and
\* resultCount is the number of results.
C13_SearchCoversEveryDataset ==
    (out # <<>> /\ out[1].tool = "search_reference_data") =>
        LET results == out[1].res.results
        IN  /\ out[1].res.resultCount = Len(results)
            /\ [i \in 1 .. Len(results) |-> [id |-> results[i].id, name |-> results[i].name]]
                    = MatchingAll(Datasets, out[1].query)
====
